---- MODULE Spec2Model ----
(***************************************************************************)
(* ECEF -> LLA -> ECEF coordinate changer (ecef_lla_coord_changer.ipynb).  *)
(*                                                                         *)
(* The notebook is a straight-line program: its code cells run top to      *)
(* bottom, each one binding the names the later cells read.  The model is  *)
(* a state machine with one action per code cell; a cell's inputs (the     *)
(* literals a user edits: a, f, the ECEF point, the altitude offset) are   *)
(* drawn from small sets.                                                  *)
(*                                                                         *)
(* Numbers.  The notebook computes in IEEE floating point (numpy float64,  *)
(* np.longdouble for e and e_prime).  TLC has 32-bit integers only, so a   *)
(* number is modelled as a sign and a magnitude of ten base-10000 limbs,   *)
(* least significant first: five fraction limbs (20 decimal digits) and    *)
(* five integer limbs.  Results are truncated to 1e-20, which is finer     *)
(* than float64 for every magnitude the pipeline produces (< 1e16).  The   *)
(* special values of IEEE arithmetic that the notebook can produce (NaN    *)
(* from 0/0 and from the root of a negative number, infinities from x/0)   *)
(* are kept as kinds "nan" and "inf"; a magnitude of 1e20 or more          *)
(* saturates to infinity.  Zero is unsigned.                               *)
(***************************************************************************)
EXTENDS Integers, Sequences, FiniteSets, TLC

Base == 10000

ZeroM == <<0, 0, 0, 0, 0, 0, 0, 0, 0, 0>>
OneM == <<0, 0, 0, 0, 0, 1, 0, 0, 0, 0>>
TwoM == <<0, 0, 0, 0, 0, 2, 0, 0, 0, 0>>
ThreeM == <<0, 0, 0, 0, 0, 3, 0, 0, 0, 0>>

(* Math constants to 20 decimals: pi, pi/2, 2 pi, 1/(2 pi), 180/pi,        *)
(* pi/180, and arctan of 1/4, 1/2, 3/4, 1.                                 *)
PiM == <<3846, 7932, 3589, 9265, 1415, 3, 0, 0, 0, 0>>
HalfPiM == <<1923, 8966, 6794, 9632, 5707, 1, 0, 0, 0, 0>>
TwoPiM == <<7692, 5864, 7179, 8530, 2831, 6, 0, 0, 0, 0>>
InvTwoPiM == <<3576, 8953, 3091, 5494, 1591, 0, 0, 0, 0, 0>>
DegPerRadM == <<7679, 3208, 3082, 7951, 2957, 57, 0, 0, 0, 0>>
RadPerDegM == <<9576, 9432, 2519, 5329, 174, 0, 0, 0, 0, 0>>
AtanQuarterM == <<5417, 8641, 3126, 7866, 2449, 0, 0, 0, 0, 0>>
AtanHalfM == <<1621, 8061, 9000, 4760, 4636, 0, 0, 0, 0, 0>>
AtanThreeQuarterM == <<8680, 2843, 8793, 110, 6435, 0, 0, 0, 0, 0>>
AtanOneM == <<961, 4483, 3397, 9816, 7853, 0, 0, 0, 0, 0>>

(***************************************************************************)
(* Magnitudes: ten base-10000 limbs, least significant first.  The top     *)
(* limb is left unreduced, so that a magnitude of 1e20 or more shows as a  *)
(* top limb of Base or more.                                               *)
(***************************************************************************)
(* The last component of a tuple.  TLC evaluates the components of a tuple *)
(* in order, so Last(<<v, w>>) is w with v evaluated before it.            *)
Last(t) == t[Len(t)]

(* -1, 0, 1 as x is below, equal to, above y. *)
MagCmp(x, y) ==
  IF x[10] # y[10] THEN (IF x[10] < y[10] THEN -1 ELSE 1) ELSE
  IF x[9] # y[9] THEN (IF x[9] < y[9] THEN -1 ELSE 1) ELSE
  IF x[8] # y[8] THEN (IF x[8] < y[8] THEN -1 ELSE 1) ELSE
  IF x[7] # y[7] THEN (IF x[7] < y[7] THEN -1 ELSE 1) ELSE
  IF x[6] # y[6] THEN (IF x[6] < y[6] THEN -1 ELSE 1) ELSE
  IF x[5] # y[5] THEN (IF x[5] < y[5] THEN -1 ELSE 1) ELSE
  IF x[4] # y[4] THEN (IF x[4] < y[4] THEN -1 ELSE 1) ELSE
  IF x[3] # y[3] THEN (IF x[3] < y[3] THEN -1 ELSE 1) ELSE
  IF x[2] # y[2] THEN (IF x[2] < y[2] THEN -1 ELSE 1) ELSE
  IF x[1] # y[1] THEN (IF x[1] < y[1] THEN -1 ELSE 1) ELSE
  0

(* Carries (and borrows) propagated through limb sums s. *)
Carry(s) ==
  LET c1 == s[1]
      c2 == s[2] + c1 \div Base
      c3 == s[3] + c2 \div Base
      c4 == s[4] + c3 \div Base
      c5 == s[5] + c4 \div Base
      c6 == s[6] + c5 \div Base
      c7 == s[7] + c6 \div Base
      c8 == s[8] + c7 \div Base
      c9 == s[9] + c8 \div Base
      c10 == s[10] + c9 \div Base
  IN  <<c1 % Base, c2 % Base, c3 % Base, c4 % Base, c5 % Base, c6 % Base, c7 % Base, c8 % Base, c9 % Base,
        c10>>

MagAdd(x, y) ==
  Carry(<<x[1] + y[1], x[2] + y[2], x[3] + y[3], x[4] + y[4], x[5] + y[5],
          x[6] + y[6], x[7] + y[7], x[8] + y[8], x[9] + y[9], x[10] + y[10]>>)

(* x - y for x >= y. *)
MagSub(x, y) ==
  Carry(<<x[1] - y[1], x[2] - y[2], x[3] - y[3], x[4] - y[4], x[5] - y[5],
          x[6] - y[6], x[7] - y[7], x[8] - y[8], x[9] - y[9], x[10] - y[10]>>)

(* Carries through the column sums s of a product: s[1] is the column     *)
(* below the last kept limb, s[12] the sum of the columns above the top.   *)
MulCarry(s) ==
  LET c1 == s[2] + s[1] \div Base
      c2 == s[3] + c1 \div Base
      c3 == s[4] + c2 \div Base
      c4 == s[5] + c3 \div Base
      c5 == s[6] + c4 \div Base
      c6 == s[7] + c5 \div Base
      c7 == s[8] + c6 \div Base
      c8 == s[9] + c7 \div Base
      c9 == s[10] + c8 \div Base
      c10 == s[11] + c9 \div Base
  IN  <<c1 % Base, c2 % Base, c3 % Base, c4 % Base, c5 % Base, c6 % Base, c7 % Base, c8 % Base, c9 % Base,
        IF s[12] > 0 THEN Base ELSE c10>>

(* x * y, truncated to 1e-20. *)
MagMul(x, y) ==
  MulCarry(<<
    x[1]*y[5] + x[2]*y[4] + x[3]*y[3] + x[4]*y[2] + x[5]*y[1],
    x[1]*y[6] + x[2]*y[5] + x[3]*y[4] + x[4]*y[3] + x[5]*y[2] + x[6]*y[1],
    x[1]*y[7] + x[2]*y[6] + x[3]*y[5] + x[4]*y[4] + x[5]*y[3] + x[6]*y[2] + x[7]*y[1],
    x[1]*y[8] + x[2]*y[7] + x[3]*y[6] + x[4]*y[5] + x[5]*y[4] + x[6]*y[3] + x[7]*y[2] + x[8]*y[1],
    x[1]*y[9] + x[2]*y[8] + x[3]*y[7] + x[4]*y[6] + x[5]*y[5] + x[6]*y[4] + x[7]*y[3] + x[8]*y[2] + x[9]*y[1],
    x[1]*y[10] + x[2]*y[9] + x[3]*y[8] + x[4]*y[7] + x[5]*y[6] + x[6]*y[5] + x[7]*y[4] + x[8]*y[3] + x[9]*y[2] + x[10]*y[1],
    x[2]*y[10] + x[3]*y[9] + x[4]*y[8] + x[5]*y[7] + x[6]*y[6] + x[7]*y[5] + x[8]*y[4] + x[9]*y[3] + x[10]*y[2],
    x[3]*y[10] + x[4]*y[9] + x[5]*y[8] + x[6]*y[7] + x[7]*y[6] + x[8]*y[5] + x[9]*y[4] + x[10]*y[3],
    x[4]*y[10] + x[5]*y[9] + x[6]*y[8] + x[7]*y[7] + x[8]*y[6] + x[9]*y[5] + x[10]*y[4],
    x[5]*y[10] + x[6]*y[9] + x[7]*y[8] + x[8]*y[7] + x[9]*y[6] + x[10]*y[5],
    x[6]*y[10] + x[7]*y[9] + x[8]*y[8] + x[9]*y[7] + x[10]*y[6],
    x[7]*y[10] + x[8]*y[9] + x[9]*y[8] + x[10]*y[7] + x[8]*y[10] + x[9]*y[9] + x[10]*y[8] + x[9]*y[10] + x[10]*y[9] + x[10]*y[10]>>)

DivLimbs(r, d) ==
  <<r[10] \div d, r[9] \div d, r[8] \div d, r[7] \div d, r[6] \div d,
    r[5] \div d, r[4] \div d, r[3] \div d, r[2] \div d, r[1] \div d>>

(* x \div d for an integer 0 < d <= 200000, limb by limb from the top. *)
DivChain(x, d) ==
  LET r10 == x[10]
      r9 == (r10 % d) * Base + x[9]
      r8 == (r9 % d) * Base + x[8]
      r7 == (r8 % d) * Base + x[7]
      r6 == (r7 % d) * Base + x[6]
      r5 == (r6 % d) * Base + x[5]
      r4 == (r5 % d) * Base + x[4]
      r3 == (r4 % d) * Base + x[3]
      r2 == (r3 % d) * Base + x[2]
      r1 == (r2 % d) * Base + x[1]
  IN  <<r10, r9, r8, r7, r6, r5, r4, r3, r2, r1>>

MagDivSmall(x, d) ==
  DivLimbs(DivChain(x, d), d)

MagMulSmall(x, n) ==
  Carry(<<x[1] * n, x[2] * n, x[3] * n, x[4] * n, x[5] * n, x[6] * n,
          x[7] * n, x[8] * n, x[9] * n, x[10] * n>>)

(* Index of the top non-zero limb, 0 for zero. *)
TopIdx(x) ==
  IF x[10] # 0 THEN 10 ELSE
  IF x[9] # 0 THEN 9 ELSE
  IF x[8] # 0 THEN 8 ELSE
  IF x[7] # 0 THEN 7 ELSE
  IF x[6] # 0 THEN 6 ELSE
  IF x[5] # 0 THEN 5 ELSE
  IF x[4] # 0 THEN 4 ELSE
  IF x[3] # 0 THEN 3 ELSE
  IF x[2] # 0 THEN 2 ELSE
  IF x[1] # 0 THEN 1 ELSE
  0

(* x * Base^k, limbs shifted out dropped. *)
LimbAt(x, j) == IF j >= 1 /\ j <= 10 THEN x[j] ELSE 0

ShiftLimbs(x, k) ==
  <<LimbAt(x, 1 - k), LimbAt(x, 2 - k), LimbAt(x, 3 - k), LimbAt(x, 4 - k),
    LimbAt(x, 5 - k), LimbAt(x, 6 - k), LimbAt(x, 7 - k), LimbAt(x, 8 - k),
    LimbAt(x, 9 - k), LimbAt(x, 10 - k)>>

(***************************************************************************)
(* Numbers with the IEEE special values.                                   *)
(***************************************************************************)
NaN == [k |-> "nan", s |-> 1, m |-> ZeroM]

Inf(sgn) == [k |-> "inf", s |-> sgn, m |-> ZeroM]

Fin(sgn, mag) ==
  IF mag[10] >= Base THEN Inf(sgn)
  ELSE [k |-> "fin", s |-> IF mag = ZeroM THEN 1 ELSE sgn, m |-> mag]

Zero == Fin(1, ZeroM)
One == Fin(1, OneM)

IsNaN(x) == x.k = "nan"
IsInf(x) == x.k = "inf"
IsFin(x) == x.k = "fin"
IsZero(x) == x.k = "fin" /\ x.m = ZeroM

Neg(x) == IF x.k = "nan" \/ IsZero(x) THEN x ELSE [x EXCEPT !.s = -x.s]

Abs(x) == IF x.k = "nan" THEN x ELSE [x EXCEPT !.s = 1]

(* x + y for finite x, y of opposite signs, c = MagCmp(x.m, y.m). *)
AddOpposite(x, y, c) ==
  IF c = 0 THEN Zero
  ELSE Fin(IF c > 0 THEN x.s ELSE y.s,
           MagSub(IF c > 0 THEN x.m ELSE y.m, IF c > 0 THEN y.m ELSE x.m))

Add(x, y) ==
  IF x.k = "nan" \/ y.k = "nan" THEN NaN
  ELSE IF x.k = "inf" THEN (IF y.k = "inf" /\ y.s # x.s THEN NaN ELSE x)
  ELSE IF y.k = "inf" THEN y
  ELSE IF x.s = y.s THEN Fin(x.s, MagAdd(x.m, y.m))
  ELSE AddOpposite(x, y, MagCmp(x.m, y.m))

Sub(x, y) == Add(x, Neg(y))

Mul(x, y) ==
  IF x.k = "nan" \/ y.k = "nan" THEN NaN
  ELSE IF x.k = "inf" \/ y.k = "inf" THEN
       (IF IsZero(x) \/ IsZero(y) THEN NaN ELSE Inf(x.s * y.s))
  ELSE Fin(x.s * y.s, MagMul(x.m, y.m))

(* Order on numbers; every comparison with NaN is false, as in IEEE.       *)
IsNegative(d) == d.k # "nan" /\ d.s = -1 /\ ~IsZero(d)

Lt(x, y) == IsNegative(Sub(x, y))

Le(x, y) == IsNegative(Sub(x, y)) \/ IsZero(Sub(x, y))

(* 1/d for a magnitude d in [1e-4, 1) (top limb at index 5): an estimate   *)
(* from the two top limbs, then four Newton steps r <- r (2 - d r).        *)
RecipStep(d, r) == MagMul(r, MagSub(TwoM, MagMul(d, r)))

RECURSIVE RecipLoop(_, _, _)
RecipLoop(d, r, n) ==
  IF n = 0 THEN r ELSE Last(<<r, RecipLoop(d, RecipStep(d, r), n - 1)>>)

(* The estimate: with Dn the two top limbs of d and j digits dropped from  *)
(* it, 10^9 \div Ds rescaled.                                              *)
RecipDrop(Dn) ==
  IF Dn < 100000 THEN 0 ELSE IF Dn < 1000000 THEN 1
  ELSE IF Dn < 10000000 THEN 2 ELSE 3

Pow10(j) == IF j = 0 THEN 1 ELSE IF j = 1 THEN 10 ELSE IF j = 2 THEN 100 ELSE 1000

RecipScaled(Dn, j) == (1000000000 \div (Dn \div Pow10(j))) * Pow10(3 - j)

RecipLimbs(V) ==
  <<0, 0, 0, 0, V % Base, (V \div Base) % Base, V \div (Base * Base), 0, 0, 0>>

RecipEstimate(Dn) == RecipLimbs(RecipScaled(Dn, RecipDrop(Dn)))

RecipNorm(d) == RecipLoop(d, RecipEstimate(d[5] * Base + d[4]), 4)

(* n / d for magnitudes, d # 0: with sh = TopIdx(d) - 5, d' = d / Base^sh  *)
(* in [1e-4, 1) and r = 1/d', a first quotient q0 = n r / Base^sh (n is    *)
(* scaled before the product when that loses nothing, sh <= 0, or when the *)
(* product would overflow); when d' dropped limbs of d (sh > 0), one       *)
(* correction q0 + (n - q0 d) / d.                                         *)
ScaleFirst(n, sh) == sh <= 0 \/ TopIdx(n) = 10

FirstQuotient(n, sh, r) ==
  ShiftLimbs(MagMul(IF ScaleFirst(n, sh) THEN ShiftLimbs(n, -sh) ELSE n, r),
             IF ScaleFirst(n, sh) THEN 0 ELSE -sh)

CorrectQuotient(n, d, sh, r, q0) ==
  IF sh <= 0 THEN q0
  ELSE (Add(Fin(1, q0), Mul(Sub(Fin(1, n), Fin(1, MagMul(q0, d))),
                            Fin(1, ShiftLimbs(r, -sh))))).m

QuotientBy(n, d, sh, r) ==
  Last(<<r, CorrectQuotient(n, d, sh, r, FirstQuotient(n, sh, r))>>)

MagDiv(n, d) ==
  IF TopIdx(n) - (TopIdx(d) - 5) > 10 THEN <<0, 0, 0, 0, 0, 0, 0, 0, 0, Base>>
  ELSE QuotientBy(n, d, TopIdx(d) - 5, RecipNorm(ShiftLimbs(d, 5 - TopIdx(d))))

Div(x, y) ==
  IF x.k = "nan" \/ y.k = "nan" THEN NaN
  ELSE IF x.k = "inf" THEN (IF y.k = "inf" THEN NaN ELSE Inf(x.s * y.s))
  ELSE IF y.k = "inf" THEN Zero
  ELSE IF IsZero(y) THEN (IF IsZero(x) THEN NaN ELSE Inf(x.s))
  ELSE Fin(x.s * y.s, MagDiv(x.m, y.m))

(* Integer square root (floor) of 2*10^7 <= n < 2*10^9, by Newton's        *)
(* iteration on integers from 46340.                                       *)
RECURSIVE IsqrtIter(_, _)
IsqrtIter(n, x) ==
  IF (x + n \div x) \div 2 >= x THEN x ELSE IsqrtIter(n, (x + n \div x) \div 2)

Isqrt(n) == IsqrtIter(n, 46340)

(* 1/sqrt(x) for a magnitude x in [1e-4, 1e4) (top limb at index 5 or 6):  *)
(* an estimate from the two top limbs, then four Newton steps              *)
(* y <- y (3 - x y^2) / 2.                                                 *)
InvSqrtStep(x, y) ==
  MagDivSmall(MagMul(y, MagSub(ThreeM, MagMul(x, MagMul(y, y)))), 2)

RECURSIVE InvSqrtLoop(_, _, _)
InvSqrtLoop(x, y, n) ==
  IF n = 0 THEN y ELSE Last(<<y, InvSqrtLoop(x, InvSqrtStep(x, y), n - 1)>>)

(* The estimate: with Dn the two top limbs of x scaled by 10^(2u) into     *)
(* [2*10^7, 2*10^9), 10^(7+u) \div isqrt.                                  *)
InvSqrtScale(Dn) == IF Dn < 200000 THEN 2 ELSE IF Dn < 20000000 THEN 1 ELSE 0

InvSqrtInt(Dn, u) ==
  (IF u = 2 THEN 1000000000 ELSE IF u = 1 THEN 100000000 ELSE 10000000)
    \div Isqrt(Dn * (IF u = 2 THEN 10000 ELSE IF u = 1 THEN 100 ELSE 1))

InvSqrtLimbs(W, top) ==
  MagDivSmall(<<0, 0, 0, 0, 0, W % Base, W \div Base, 0, 0, 0>>,
              IF top = 5 THEN 1000 ELSE 100000)

InvSqrtEstimate(Dn, top) == InvSqrtLimbs(InvSqrtInt(Dn, InvSqrtScale(Dn)), top)

InvSqrtNorm(x, top) ==
  InvSqrtLoop(x, InvSqrtEstimate(x[top] * Base + x[top - 1], top), 4)

(* sqrt(x) for a magnitude x # 0: with top = 5 or 6 as TopIdx(x) is odd or *)
(* even, sh = TopIdx(x) - top (even), x' = x / Base^sh in [1e-4, 1e4) and  *)
(* y = 1/sqrt(x'), a first root s0 = x y / Base^(sh/2), then one           *)
(* correction s0 + (x - s0^2) / (2 sqrt(x)).                               *)
SqrtTop(x) == IF TopIdx(x) % 2 = 1 THEN 5 ELSE 6

FirstRoot(x, sh, y) ==
  ShiftLimbs(MagMul(IF sh <= 0 THEN ShiftLimbs(x, -sh) ELSE x, y),
             IF sh <= 0 THEN sh \div 2 ELSE -(sh \div 2))

CorrectRoot(x, sh, y, s0) ==
  (Add(Fin(1, s0), Mul(Sub(Fin(1, x), Fin(1, MagMul(s0, s0))),
                       Fin(1, MagDivSmall(ShiftLimbs(y, -(sh \div 2)), 2))))).m

RootBy(x, sh, y) == Last(<<y, CorrectRoot(x, sh, y, FirstRoot(x, sh, y))>>)

MagSqrt(x) ==
  RootBy(x, TopIdx(x) - SqrtTop(x),
         InvSqrtNorm(ShiftLimbs(x, SqrtTop(x) - TopIdx(x)), SqrtTop(x)))

(* x ** (1/2): NaN for a negative x, as numpy's power gives.               *)
Sqrt(x) ==
  IF x.k = "nan" THEN NaN
  ELSE IF IsZero(x) THEN Zero
  ELSE IF x.s = -1 THEN NaN
  ELSE IF x.k = "inf" THEN x
  ELSE Fin(1, MagSqrt(x.m))

(***************************************************************************)
(* Sine, cosine and arctangent of a number of radians.                     *)
(***************************************************************************)
(* One step of a Taylor series in Horner form, for a magnitude x2 = x^2    *)
(* with x <= pi/2: 1 - x2 * acc / ((k - 1) k); the steps for k going down  *)
(* by two to last.                                                         *)
TaylorStep(x2, k, acc) ==
  MagSub(OneM, MagDivSmall(MagMul(x2, acc), (k - 1) * k))

RECURSIVE TaylorHorner(_, _, _, _)
TaylorHorner(x2, k, last, acc) ==
  IF k < last THEN acc
  ELSE Last(<<acc, TaylorHorner(x2, k - 2, last, TaylorStep(x2, k, acc))>>)

(* sin x = x (1 - x^2/(2*3) (1 - x^2/(4*5) (...))) for 0 <= x <= pi/2,      *)
(* the series cut after the x^29 term.                                     *)
MagSin(x) == MagMul(x, TaylorHorner(MagMul(x, x), 29, 3, OneM))

(* cos x = 1 - x^2/(1*2) (1 - x^2/(3*4) (...)) for 0 <= x <= pi/2, the     *)
(* series cut after the x^30 term; the last step may come out below zero   *)
(* by rounding, so it is signed.                                           *)
CosLast(x2, in) == Sub(One, Fin(1, MagDivSmall(MagMul(x2, in), 2)))

CosSeries(x2) == CosLast(x2, TaylorHorner(x2, 30, 4, OneM))

NumCos(x) == CosSeries(MagMul(x, x))

(* x reduced by whole turns into [-pi, pi]: x - 2 pi * round(x / (2 pi)).  *)
IntPart(q) == <<0, 0, 0, 0, 0, q[6], q[7], q[8], q[9], q[10]>>

Turns(x) ==
  IntPart(MagAdd(MagMul(x.m, InvTwoPiM), <<0, 0, 0, 0, 5000, 0, 0, 0, 0, 0>>))

ReduceTurn(x) ==
  IF MagCmp(x.m, PiM) <= 0 THEN x
  ELSE Sub(x, Fin(x.s, MagMul(Turns(x), TwoPiM)))

(* The magnitude of r in [-pi, pi] folded into [0, pi/2]: |r| or pi - |r|. *)
Fold(r) ==
  IF MagCmp(r.m, HalfPiM) <= 0 THEN r.m
  ELSE (Abs(Sub(Fin(1, PiM), Abs(r)))).m

SinReduced(r) == Fin(r.s, MagSin(Fold(r)))

SinRad(x) == IF x.k # "fin" THEN NaN ELSE SinReduced(ReduceTurn(x))

CosFolded(r, c) == IF MagCmp(r.m, HalfPiM) <= 0 THEN c ELSE Neg(c)

CosReduced(r) == CosFolded(r, NumCos(Fold(r)))

CosRad(x) == IF x.k # "fin" THEN NaN ELSE CosReduced(ReduceTurn(x))

(* arctan v = v (1 - v^2 (1/3 - v^2 (1/5 - ...))) for a magnitude          *)
(* v <= 1/7, in Horner form with the steps 1/k - v2 * acc, the series cut  *)
(* after the v^25 term.                                                    *)
AtanStep(v2, k, acc) == MagSub(MagDivSmall(OneM, k), MagMul(v2, acc))

RECURSIVE AtanHorner(_, _, _)
AtanHorner(v2, k, acc) ==
  IF k < 1 THEN acc
  ELSE Last(<<acc, AtanHorner(v2, k - 2, AtanStep(v2, k, acc))>>)

MagAtanSmall(v) == MagMul(v, AtanHorner(MagMul(v, v), 25, ZeroM))

(* arctan u for a finite u in [0, 1]: with c = c4/4 the nearest of 0, 1/4, *)
(* 1/2, 3/4, 1, arctan u = arctan c + arctan((u - c) / (1 + u c)).         *)
NearestQuarter(t) ==
  IF t < 1250 THEN 0 ELSE IF t < 3750 THEN 1
  ELSE IF t < 6250 THEN 2 ELSE IF t < 8750 THEN 3 ELSE 4

AtanOfQuarter(c4) ==
  IF c4 = 0 THEN ZeroM ELSE IF c4 = 1 THEN AtanQuarterM
  ELSE IF c4 = 2 THEN AtanHalfM
  ELSE IF c4 = 3 THEN AtanThreeQuarterM ELSE AtanOneM

AtanSum(ac, v) == Add(Fin(1, ac), Fin(v.s, MagAtanSmall(v.m)))

AtanAround(u, c4, c) ==
  AtanSum(AtanOfQuarter(c4), Div(Sub(u, c), Add(One, Mul(u, c))))

AtanNear(u, c4) ==
  AtanAround(u, c4, Fin(1, MagDivSmall(<<0, 0, 0, 0, 0, c4, 0, 0, 0, 0>>, 4)))

AtanUnit(u) == AtanNear(u, NearestQuarter(u.m[6] * Base + u.m[5]))

(* arctan over all numbers: odd, pi/2 - arctan(1/u) above 1, +-pi/2 at the *)
(* infinities, NaN at NaN.                                                 *)
AtanAbove(big, r) == IF big THEN Sub(Fin(1, HalfPiM), r) ELSE r

AtanAbs(u, big) == AtanAbove(big, AtanUnit(IF big THEN Div(One, u) ELSE u))

AtanSigned(sgn, r) == IF sgn = -1 THEN Neg(r) ELSE r

ArctanRad(x) ==
  IF x.k = "nan" THEN NaN
  ELSE IF x.k = "inf" THEN Fin(x.s, HalfPiM)
  ELSE AtanSigned(x.s, AtanAbs(Abs(x), MagCmp(x.m, OneM) > 0))

(***************************************************************************)
(* Angles.  np.arctan of a dimensionless astropy Quantity is a Quantity in *)
(* radians; np.degrees turns it into a Quantity in degrees; np.sin and     *)
(* np.cos of a Quantity convert its value to radians before the function   *)
(* is evaluated.  Lengths carry the unit m throughout, which no operation  *)
(* of the notebook converts, so a length is modelled as its number.        *)
(***************************************************************************)
Quantity(val, un) == [value |-> val, unit |-> un]

np_arctan(x) == Quantity(ArctanRad(x), "rad")

np_degrees(q) ==
  IF q.unit = "rad" THEN Quantity(Mul(q.value, Fin(1, DegPerRadM)), "deg")
  ELSE q

(* A slip in the unit handling: the stored number of a Quantity handed on  *)
(* as it is, whatever its unit.                                            *)
to_radian_unconverted(q) == q.value

to_radian(q) ==
  IF q.unit = "deg" THEN Mul(q.value, Fin(1, RadPerDegM)) ELSE q.value

np_sin(q) == SinRad(to_radian(q))

np_cos(q) == CosRad(to_radian(q))

Square(x) == Mul(x, x)

Cube(x) == Mul(Mul(x, x), x)

(***************************************************************************)
(* The expressions of the code cells.                                      *)
(***************************************************************************)
(* A slip in the semi-minor axis: flattening added instead of removed. *)
b_def_flattening_added(a_, f_) == Mul(a_, Add(One, f_))

(* b = a * (1 - f) *)
b_def(a_, f_) == Mul(a_, Sub(One, f_))

(* e = ((a**2 - b**2)**(1/2))/a *)
e_def(a_, b_) == Div(Sqrt(Sub(Square(a_), Square(b_))), a_)

(* e_prime = e/((1 - e**2)**(1/2)) *)
e_prime_den(e_) == Sqrt(Sub(One, Square(e_)))

e_prime_def(e_) == Div(e_, e_prime_den(e_))

(* lam = np.degrees(np.arctan(Y_original/X_original)) *)
lam_def(X_, Y_) == np_degrees(np_arctan(Div(Y_, X_)))

(* p = (X_original**2 + Y_original**2)**(1/2) *)
p_def(X_, Y_) == Sqrt(Add(Square(X_), Square(Y_)))

(* theta = np.degrees(np.arctan((Z_original * a)/(p * b))) *)
theta_den(p_, b_) == Mul(p_, b_)

theta_def(Z_, a_, p_, b_) ==
  np_degrees(np_arctan(Div(Mul(Z_, a_), theta_den(p_, b_))))

(* phi = np.degrees(np.arctan((Z_original + e_prime**2 * b *               *)
(*       (np.sin(theta)**3))/(p - e**2 * a * (np.cos(theta)**3))))         *)
phi_num(Z_, b_, ep_, theta_) ==
  Add(Z_, Mul(Mul(Square(ep_), b_), Cube(np_sin(theta_))))

phi_den(p_, a_, e_, theta_) ==
  Sub(p_, Mul(Mul(Square(e_), a_), Cube(np_cos(theta_))))

phi_def(Z_, p_, a_, b_, e_, ep_, theta_) ==
  np_degrees(np_arctan(Div(phi_num(Z_, b_, ep_, theta_),
                           phi_den(p_, a_, e_, theta_))))

(* A slip in the radius of curvature: the sine left unsquared. *)
N_def_sine_unsquared(a_, e_, phi_) ==
  Div(a_, Sqrt(Sub(One, Mul(Square(e_), np_sin(phi_)))))

(* N = a / ((1 - e**2 * (np.sin(phi)**2))**(1/2)) *)
N_den(e_, phi_) == Sqrt(Sub(One, Mul(Square(e_), Square(np_sin(phi_)))))

N_def(a_, e_, phi_) == Div(a_, N_den(e_, phi_))

(* h = (p / np.cos(phi)) - N *)
h_def(p_, phi_, N_) == Sub(Div(p_, np_cos(phi_)), N_)

(* A slip in the offset: subtracted instead of added. *)
h_offset_def_subtracted(h_, alt_offset_) == Sub(h_, alt_offset_)

(* h_offset = h + alt_offset *)
h_offset_def(h_, alt_offset_) == Add(h_, alt_offset_)

(* X_new = (N + h_offset) * np.cos(phi) * np.cos(lam) *)
X_new_def(N_, ho_, phi_, lam_) ==
  Mul(Mul(Add(N_, ho_), np_cos(phi_)), np_cos(lam_))

(* Y_new = (N + h_offset) * np.cos(phi) * np.sin(lam) *)
Y_new_def(N_, ho_, phi_, lam_) ==
  Mul(Mul(Add(N_, ho_), np_cos(phi_)), np_sin(lam_))

(* Z_new = (((b**2 / a**2)*N) + h_offset) * np.sin(phi) *)
Z_new_def(a_, b_, N_, ho_, phi_) ==
  Mul(Add(Mul(Div(Square(b_), Square(a_)), N_), ho_), np_sin(phi_))

(* A slip in the difference: original minus new. *)
dif_def_reversed(new_, original_) == Sub(original_, new_)

(* X_dif = X_new - X_original, and likewise for Y and Z *)
dif_def(new_, original_) == Sub(new_, original_)

(***************************************************************************)
(* The inputs a user types into the cells.                                 *)
(***************************************************************************)
(* GRS80: a = 6378137.0, f = 0.003352810681183637418 *)
GRS80_a == Fin(1, <<0, 0, 0, 0, 0, 8137, 637, 0, 0, 0>>)
GRS80_f == Fin(1, <<3741, 1836, 681, 5281, 33, 0, 0, 0, 0, 0>>)

(* The constants of cell b417fa70: GRS80, and constants outside the domain *)
(* a > 0, 0 < f < 1 (a = 0; f = 0; f = 1.5).                               *)
EllipsoidChoices ==
  { <<GRS80_a, GRS80_f>>, <<Zero, GRS80_f>>, <<GRS80_a, Zero>>,
    <<GRS80_a, Fin(1, <<0, 0, 0, 0, 5000, 1, 0, 0, 0, 0>>)>> }

ValidConstants(a_, f_) ==
  /\ IsFin(a_) /\ IsFin(f_)
  /\ Lt(Zero, a_) /\ Lt(Zero, f_) /\ Lt(f_, One)

(* The four observatory positions listed in cell ee08c614: GBT (current),  *)
(* GBT (pre-2021), AO (current), AO (pre-2021).                            *)
GBT == <<Fin(1, <<0, 0, 0, 0, 2890, 2589, 88, 0, 0, 0>>), Fin(-1, <<0, 0, 0, 0, 3680, 4872, 492, 0, 0, 0>>), Fin(1, <<0, 0, 0, 0, 4180, 3729, 394, 0, 0, 0>>)>>
ObservatoryPoints ==
  { GBT,
    <<Fin(1, <<0, 0, 0, 0, 6500, 2589, 88, 0, 0, 0>>), Fin(-1, <<0, 0, 0, 0, 3200, 4872, 492, 0, 0, 0>>), Fin(1, <<0, 0, 0, 0, 3480, 3729, 394, 0, 0, 0>>)>>,
    <<Fin(1, <<0, 0, 0, 0, 800, 487, 239, 0, 0, 0>>), Fin(-1, <<0, 0, 0, 0, 3570, 4731, 556, 0, 0, 0>>), Fin(1, <<0, 0, 0, 0, 6330, 4720, 199, 0, 0, 0>>)>>,
    <<Fin(1, <<0, 0, 0, 0, 0, 490, 239, 0, 0, 0>>), Fin(-1, <<0, 0, 0, 0, 0, 4764, 556, 0, 0, 0>>), Fin(1, <<0, 0, 0, 0, 0, 4727, 199, 0, 0, 0>>)>> }

(* GBT mirrored into each of the eight octants. *)
Signs == {1, -1}
Mirror(pt, sx, sy, sz) ==
  << IF sx = 1 THEN pt[1] ELSE Neg(pt[1]),
     IF sy = 1 THEN pt[2] ELSE Neg(pt[2]),
     IF sz = 1 THEN pt[3] ELSE Neg(pt[3]) >>
OctantPoints == { Mirror(GBT, sx, sy, sz) : sx \in Signs, sy \in Signs, sz \in Signs }

(* The geographic North Pole of the ellipsoid: X = Y = 0, Z = b. *)
NorthPole(b_) == <<Zero, Zero, b_>>

PointChoices(b_) ==
  ObservatoryPoints \cup OctantPoints
    \cup (IF IsFin(b_) /\ Lt(Zero, b_) THEN {NorthPole(b_)} ELSE {})

(* Altitude offsets: multiples of the notebook's 0.05 m, of either sign. *)
MaxOffsetSteps == 1
OffsetUnit == Fin(1, <<0, 0, 0, 0, 500, 0, 0, 0, 0, 0>>)
OffsetChoices ==
  { IF n >= 0 THEN Fin(1, MagMulSmall(OffsetUnit.m, n))
    ELSE Fin(-1, MagMulSmall(OffsetUnit.m, -n)) :
    n \in -MaxOffsetSteps .. MaxOffsetSteps }

(***************************************************************************)
(* State: the notebook's names and the cell to run next.  A name no cell   *)
(* has bound yet is Unbound.  Within a cell the statements run in order,   *)
(* a later one reading what an earlier one bound.                          *)
(***************************************************************************)
VARIABLES pc, a, f, b, e, e_prime, X_original, Y_original, Z_original,
          lam, p, theta, phi, N, h, alt_offset, h_offset,
          X_new, Y_new, Z_new, X_dif, Y_dif, Z_dif

vars == <<pc, a, f, b, e, e_prime, X_original, Y_original, Z_original,
          lam, p, theta, phi, N, h, alt_offset, h_offset,
          X_new, Y_new, Z_new, X_dif, Y_dif, Z_dif>>

Unbound == [k |-> "unbound", s |-> 1, m |-> ZeroM]
UnboundAngle == Quantity(Unbound, "none")

Init ==
  /\ pc = "constants"
  /\ a = Unbound /\ f = Unbound
  /\ b = Unbound /\ e = Unbound /\ e_prime = Unbound
  /\ X_original = Unbound /\ Y_original = Unbound /\ Z_original = Unbound
  /\ lam = UnboundAngle /\ p = Unbound /\ theta = UnboundAngle
  /\ phi = UnboundAngle /\ N = Unbound /\ h = Unbound
  /\ alt_offset = Unbound /\ h_offset = Unbound
  /\ X_new = Unbound /\ Y_new = Unbound /\ Z_new = Unbound
  /\ X_dif = Unbound /\ Y_dif = Unbound /\ Z_dif = Unbound

(* Cell b417fa70: the geometrical constants a and f. *)
GRS80Constants(choices) ==
  /\ pc = "constants"
  /\ \E c \in choices : a' = c[1] /\ f' = c[2]
  /\ pc' = "derived"
  /\ UNCHANGED <<b, e, e_prime, X_original, Y_original, Z_original,
                 lam, p, theta, phi, N, h, alt_offset, h_offset,
                 X_new, Y_new, Z_new, X_dif, Y_dif, Z_dif>>

(* Cell cc86780a: the derived constants b, e, e_prime. *)
DerivedConstants ==
  /\ pc = "derived"
  /\ b' = b_def(a, f)
  /\ e' = e_def(a, b')
  /\ e_prime' = e_prime_def(e')
  /\ pc' = "coords"
  /\ UNCHANGED <<a, f, X_original, Y_original, Z_original,
                 lam, p, theta, phi, N, h, alt_offset, h_offset,
                 X_new, Y_new, Z_new, X_dif, Y_dif, Z_dif>>

(* Cell ee08c614: the ECEF coordinates of the point. *)
OriginalCoords ==
  /\ pc = "coords"
  /\ \E pt \in PointChoices(b) :
       X_original' = pt[1] /\ Y_original' = pt[2] /\ Z_original' = pt[3]
  /\ pc' = "ecef_to_lla"
  /\ UNCHANGED <<a, f, b, e, e_prime, lam, p, theta, phi, N, h,
                 alt_offset, h_offset, X_new, Y_new, Z_new,
                 X_dif, Y_dif, Z_dif>>

(* Cell 70bdb87c: ECEF to LLA by the closed formula set. *)
EcefToLla ==
  /\ pc = "ecef_to_lla"
  /\ lam' = lam_def(X_original, Y_original)
  /\ p' = p_def(X_original, Y_original)
  /\ theta' = theta_def(Z_original, a, p', b)
  /\ phi' = phi_def(Z_original, p', a, b, e, e_prime, theta')
  /\ N' = N_def(a, e, phi')
  /\ h' = h_def(p', phi', N')
  /\ pc' = "offset"
  /\ UNCHANGED <<a, f, b, e, e_prime, X_original, Y_original, Z_original,
                 alt_offset, h_offset, X_new, Y_new, Z_new,
                 X_dif, Y_dif, Z_dif>>

(* Cell d8ecb77b: imposing an altitude offset. *)
ImposeAltitudeOffset ==
  /\ pc = "offset"
  /\ \E d \in OffsetChoices : alt_offset' = d
  /\ h_offset' = h_offset_def(h, alt_offset')
  /\ pc' = "lla_to_ecef"
  /\ UNCHANGED <<a, f, b, e, e_prime, X_original, Y_original, Z_original,
                 lam, p, theta, phi, N, h, X_new, Y_new, Z_new,
                 X_dif, Y_dif, Z_dif>>

(* A slip in the last conversion: the altitude h read in place of the      *)
(* offset altitude h_offset.                                               *)
LlaToEcef_without_offset ==
  /\ pc = "lla_to_ecef"
  /\ X_new' = X_new_def(N, h, phi, lam)
  /\ Y_new' = Y_new_def(N, h, phi, lam)
  /\ Z_new' = Z_new_def(a, b, N, h, phi)
  /\ pc' = "differences"
  /\ UNCHANGED <<a, f, b, e, e_prime, X_original, Y_original, Z_original,
                 lam, p, theta, phi, N, h, alt_offset, h_offset,
                 X_dif, Y_dif, Z_dif>>

(* Cell 9ee20e4c: LLA to ECEF. *)
LlaToEcef ==
  /\ pc = "lla_to_ecef"
  /\ X_new' = X_new_def(N, h_offset, phi, lam)
  /\ Y_new' = Y_new_def(N, h_offset, phi, lam)
  /\ Z_new' = Z_new_def(a, b, N, h_offset, phi)
  /\ pc' = "differences"
  /\ UNCHANGED <<a, f, b, e, e_prime, X_original, Y_original, Z_original,
                 lam, p, theta, phi, N, h, alt_offset, h_offset,
                 X_dif, Y_dif, Z_dif>>

(* Cell 97b986e4: differences between original and offset coordinates. *)
Differences ==
  /\ pc = "differences"
  /\ X_dif' = dif_def(X_new, X_original)
  /\ Y_dif' = dif_def(Y_new, Y_original)
  /\ Z_dif' = dif_def(Z_new, Z_original)
  /\ pc' = "done"
  /\ UNCHANGED <<a, f, b, e, e_prime, X_original, Y_original, Z_original,
                 lam, p, theta, phi, N, h, alt_offset, h_offset,
                 X_new, Y_new, Z_new>>

Next ==
  \/ GRS80Constants(EllipsoidChoices)
  \/ DerivedConstants
  \/ OriginalCoords
  \/ EcefToLla
  \/ ImposeAltitudeOffset
  \/ LlaToEcef
  \/ Differences

Spec == Init /\ [][Next]_vars

(***************************************************************************)
(* The second specification: the two constant cells alone, over a grid of  *)
(* constants inside the domain a > 0, 0 < f < 1.                           *)
(***************************************************************************)
(* a in metres: a unit sphere, a kilometre, GRS80, and a giant planet. *)
GridA ==
  { Fin(1, MagMulSmall(OneM, n)) : n \in {1, 1000, 71492000} } \cup {GRS80_a}

(* f = k / (FlatSteps + 1) for k = 1 .. FlatSteps, the GRS80 value, and a  *)
(* value near each end of the interval: 0.000001 and 0.999999.             *)
FlatSteps == 12
GridF ==
  { Fin(1, MagDivSmall(MagMulSmall(OneM, k), FlatSteps + 1)) : k \in 1 .. FlatSteps }
    \cup {GRS80_f, Fin(1, MagDivSmall(OneM, 1000000)),
          Fin(1, MagSub(OneM, MagDivSmall(OneM, 1000000)))}

EllipsoidGrid == { <<ga, gf>> : ga \in GridA, gf \in GridF }

NextEllipsoid ==
  \/ GRS80Constants(EllipsoidGrid)
  \/ DerivedConstants

SpecEllipsoid == Init /\ [][NextEllipsoid]_vars

(***************************************************************************)
(* Properties.                                                             *)
(***************************************************************************)
(* The cells run so far, counted. *)
Stage ==
  CASE pc = "constants" -> 0
    [] pc = "derived" -> 1
    [] pc = "coords" -> 2
    [] pc = "ecef_to_lla" -> 3
    [] pc = "offset" -> 4
    [] pc = "lla_to_ecef" -> 5
    [] pc = "differences" -> 6
    [] pc = "done" -> 7

Bound(x) == x # Unbound /\ x # UnboundAngle

Within(x, y, tol) == Le(Abs(Sub(x, y)), tol)

GRS80Model == a = GRS80_a /\ f = GRS80_f

AtGBT == X_original = GBT[1] /\ Y_original = GBT[2] /\ Z_original = GBT[3]

OnPolarAxis == IsZero(X_original) /\ IsZero(Y_original)

(* The number of radians of an angle kept in degrees. *)
Radians(q) == Mul(q.value, Fin(1, RadPerDegM))

(* C1.  Round trip: with valid constants and a zero altitude offset, every *)
(* point off the polar axis, in every octant, comes back from ECEF -> LLA  *)
(* -> ECEF within 1e-6 m in each of X, Y, Z, each component with the sign  *)
(* of the original.                                                        *)
C1_RoundTrip ==
  (pc = "done" /\ ValidConstants(a, f) /\ IsZero(alt_offset) /\ ~OnPolarAxis)
    => /\ Within(X_new, X_original, Fin(1, <<0, 0, 0, 100, 0, 0, 0, 0, 0, 0>>))
       /\ Within(Y_new, Y_original, Fin(1, <<0, 0, 0, 100, 0, 0, 0, 0, 0, 0>>))
       /\ Within(Z_new, Z_original, Fin(1, <<0, 0, 0, 100, 0, 0, 0, 0, 0, 0>>))
       /\ X_new.s = X_original.s
       /\ Y_new.s = Y_original.s
       /\ Z_new.s = Z_original.s

(* C2.  Longitude quadrant: for X < 0 and Y > 0 the longitude is strictly  *)
(* between 90 and 180 degrees.                                             *)
C2_LongitudeQuadrant ==
  (Stage >= 4 /\ ValidConstants(a, f)
     /\ Lt(X_original, Zero) /\ Lt(Zero, Y_original))
    => /\ lam.unit = "deg"
       /\ Lt(Fin(1, <<0, 0, 0, 0, 0, 90, 0, 0, 0, 0>>), lam.value)
       /\ Lt(lam.value, Fin(1, <<0, 0, 0, 0, 0, 180, 0, 0, 0, 0>>))

(* C3.  North Pole: for X = 0, Y = 0, Z = b no division of the ECEF -> LLA *)
(* cell has a zero divisor (Y/X, Z a/(p b), p/cos(phi)), the latitude is   *)
(* 90 degrees, and the altitude is the polar one, |Z| - b, not             *)
(* p/cos(phi) - N.                                                         *)
C3_NorthPole ==
  (Stage >= 4 /\ ValidConstants(a, f) /\ OnPolarAxis /\ Z_original = b)
    => /\ ~IsZero(X_original)
       /\ ~IsZero(theta_den(p, b))
       /\ ~IsZero(np_cos(phi))
       /\ Within(phi.value, Fin(1, <<0, 0, 0, 0, 0, 90, 0, 0, 0, 0>>), Fin(1, <<0, 0, 0, 100, 0, 0, 0, 0, 0, 0>>))
       /\ Within(h, Sub(Abs(Z_original), b), Fin(1, <<0, 0, 0, 100, 0, 0, 0, 0, 0, 0>>))

(* C4.  Parameter validation: with a <= 0 or f outside (0, 1) the program  *)
(* stops at the derivation of the model: b, e, e_prime are never bound and *)
(* no later cell runs.                                                     *)
C4_InvalidParameter ==
  (Stage >= 1 /\ ~ValidConstants(a, f))
    => /\ Stage = 1
       /\ ~Bound(b) /\ ~Bound(e) /\ ~Bound(e_prime)

(* C5.  The altitude-offset cell changes only the altitude: it binds       *)
(* h_offset = h + alt_offset and leaves phi, lam, N (and h) as they were;  *)
(* with an offset of 0 the offset altitude is h itself.                    *)
C5_OffsetChangesOnlyAltitude ==
  [][pc = "offset" =>
       /\ h_offset' = Add(h, alt_offset')
       /\ phi' = phi /\ lam' = lam /\ N' = N /\ h' = h
       /\ (IsZero(alt_offset') => h_offset' = h)]_vars

C5_OffsetApplied ==
  /\ pc = "lla_to_ecef" /\ GRS80Model /\ AtGBT
  /\ alt_offset = OffsetUnit
  /\ Within(h_offset, Add(Fin(1, <<0, 0, 0, 5000, 6680, 823, 0, 0, 0, 0>>), OffsetUnit), Fin(1, <<0, 0, 0, 0, 1, 0, 0, 0, 0, 0>>))

(* C6, as stated.  Offset scenario: GBT with an offset of 0.05 m comes     *)
(* back as X ~ 882589.29591, Y ~ -4924872.40655, Z ~ 3943729.44908 (within *)
(* 1e-3 m), and the differences to the original are about                  *)
(* (10.36, -57.83, 46.62) m.                                               *)
C6_OffsetScenarioAsStated ==
  (pc = "done" /\ GRS80Model /\ AtGBT /\ alt_offset = OffsetUnit)
    => /\ Within(X_new, Fin(1, <<0, 0, 0, 1000, 2959, 2589, 88, 0, 0, 0>>), Fin(1, <<0, 0, 0, 0, 10, 0, 0, 0, 0, 0>>))
       /\ Within(Y_new, Fin(-1, <<0, 0, 0, 5000, 4065, 4872, 492, 0, 0, 0>>), Fin(1, <<0, 0, 0, 0, 10, 0, 0, 0, 0, 0>>))
       /\ Within(Z_new, Fin(1, <<0, 0, 0, 8000, 4490, 3729, 394, 0, 0, 0>>), Fin(1, <<0, 0, 0, 0, 10, 0, 0, 0, 0, 0>>))
       /\ Within(X_dif, Fin(1, <<0, 0, 0, 0, 3600, 10, 0, 0, 0, 0>>), Fin(1, <<0, 0, 0, 0, 100, 0, 0, 0, 0, 0>>))
       /\ Within(Y_dif, Fin(-1, <<0, 0, 0, 0, 8300, 57, 0, 0, 0, 0>>), Fin(1, <<0, 0, 0, 0, 100, 0, 0, 0, 0, 0>>))
       /\ Within(Z_dif, Fin(1, <<0, 0, 0, 0, 6200, 46, 0, 0, 0, 0>>), Fin(1, <<0, 0, 0, 0, 100, 0, 0, 0, 0, 0>>))

(* C6, amended.  Offset scenario: GBT with an offset of 0.05 m comes back  *)
(* as X ~ 882589.29591, Y ~ -4924872.40655, Z ~ 3943729.44908 (within      *)
(* 1e-3 m), and the differences to the original are about                  *)
(* (0.00691, -0.03855, 0.03108) m (within 1e-4 m).                         *)
C6_OffsetScenario ==
  (pc = "done" /\ GRS80Model /\ AtGBT /\ alt_offset = OffsetUnit)
    => /\ Within(X_new, Fin(1, <<0, 0, 0, 1000, 2959, 2589, 88, 0, 0, 0>>), Fin(1, <<0, 0, 0, 0, 10, 0, 0, 0, 0, 0>>))
       /\ Within(Y_new, Fin(-1, <<0, 0, 0, 5000, 4065, 4872, 492, 0, 0, 0>>), Fin(1, <<0, 0, 0, 0, 10, 0, 0, 0, 0, 0>>))
       /\ Within(Z_new, Fin(1, <<0, 0, 0, 8000, 4490, 3729, 394, 0, 0, 0>>), Fin(1, <<0, 0, 0, 0, 10, 0, 0, 0, 0, 0>>))
       /\ Within(X_dif, Fin(1, <<0, 0, 0, 1000, 69, 0, 0, 0, 0, 0>>), Fin(1, <<0, 0, 0, 0, 1, 0, 0, 0, 0, 0>>))
       /\ Within(Y_dif, Fin(-1, <<0, 0, 0, 5000, 385, 0, 0, 0, 0, 0>>), Fin(1, <<0, 0, 0, 0, 1, 0, 0, 0, 0, 0>>))
       /\ Within(Z_dif, Fin(1, <<0, 0, 0, 8000, 310, 0, 0, 0, 0, 0>>), Fin(1, <<0, 0, 0, 0, 1, 0, 0, 0, 0, 0>>))

C6_OffsetScenarioRun ==
  /\ pc = "done" /\ GRS80Model /\ AtGBT /\ alt_offset = OffsetUnit
  /\ Bound(X_dif) /\ Bound(Y_dif) /\ Bound(Z_dif)

(* C7.  Known values: GBT with the GRS80 constants gives latitude          *)
(* ~ 38.43312964 deg, longitude ~ -79.83984263 deg and altitude            *)
(* ~ 823.66805 m, each within 1e-4.                                        *)
C7_KnownValues ==
  (Stage >= 4 /\ GRS80Model /\ AtGBT)
    => /\ phi.unit = "deg" /\ Within(phi.value, Fin(1, <<0, 0, 0, 2964, 4331, 38, 0, 0, 0, 0>>), Fin(1, <<0, 0, 0, 0, 1, 0, 0, 0, 0, 0>>))
       /\ lam.unit = "deg" /\ Within(lam.value, Fin(-1, <<0, 0, 0, 4263, 8398, 79, 0, 0, 0, 0>>), Fin(1, <<0, 0, 0, 0, 1, 0, 0, 0, 0, 0>>))
       /\ Within(h, Fin(1, <<0, 0, 0, 5000, 6680, 823, 0, 0, 0, 0>>), Fin(1, <<0, 0, 0, 0, 1, 0, 0, 0, 0, 0>>))

C7_GBTConverted ==
  /\ pc = "offset" /\ GRS80Model /\ AtGBT
  /\ Bound(phi) /\ Bound(lam) /\ Bound(h)

(* C8.  Pipeline order and data flow: a name is bound exactly when its     *)
(* cell has run - the model b, e, e_prime before any conversion, then phi, *)
(* lam, h, N, then the offset altitude, then the new point last; the new   *)
(* point is the LLA -> ECEF formulas of phi, lam, N, the offset altitude   *)
(* h_offset and a, b; and a bound name is never bound again.               *)
BoundInOrder ==
  /\ (Bound(a) /\ Bound(f)) = (Stage >= 1)
  /\ (Bound(a) \/ Bound(f)) = (Stage >= 1)
  /\ (Bound(b) /\ Bound(e) /\ Bound(e_prime)) = (Stage >= 2)
  /\ (Bound(b) \/ Bound(e) \/ Bound(e_prime)) = (Stage >= 2)
  /\ (Bound(X_original) /\ Bound(Y_original) /\ Bound(Z_original)) = (Stage >= 3)
  /\ (Bound(X_original) \/ Bound(Y_original) \/ Bound(Z_original)) = (Stage >= 3)
  /\ (Bound(lam) /\ Bound(p) /\ Bound(theta) /\ Bound(phi) /\ Bound(N) /\ Bound(h))
       = (Stage >= 4)
  /\ (Bound(lam) \/ Bound(p) \/ Bound(theta) \/ Bound(phi) \/ Bound(N) \/ Bound(h))
       = (Stage >= 4)
  /\ (Bound(alt_offset) /\ Bound(h_offset)) = (Stage >= 5)
  /\ (Bound(alt_offset) \/ Bound(h_offset)) = (Stage >= 5)
  /\ (Bound(X_new) /\ Bound(Y_new) /\ Bound(Z_new)) = (Stage >= 6)
  /\ (Bound(X_new) \/ Bound(Y_new) \/ Bound(Z_new)) = (Stage >= 6)
  /\ (Bound(X_dif) /\ Bound(Y_dif) /\ Bound(Z_dif)) = (Stage >= 7)
  /\ (Bound(X_dif) \/ Bound(Y_dif) \/ Bound(Z_dif)) = (Stage >= 7)

NewPointFromOffsetAltitude ==
  pc = "differences"
    => /\ X_new = X_new_def(N, h_offset, phi, lam)
       /\ Y_new = Y_new_def(N, h_offset, phi, lam)
       /\ Z_new = Z_new_def(a, b, N, h_offset, phi)

BoundOnce ==
  \A i \in 2 .. Len(vars) : Bound(vars[i]) => vars'[i] = vars[i]

C8_PipelineOrder ==
  /\ [](BoundInOrder /\ NewPointFromOffsetAltitude)
  /\ [][BoundOnce /\ Stage' = Stage + 1]_vars

C8_OffsetPointConverted ==
  /\ pc = "differences" /\ GRS80Model /\ AtGBT /\ alt_offset = OffsetUnit
  /\ X_new # X_new_def(N, h, phi, lam)

C10_TrigInRadians ==
  /\ pc = "offset" =>
       /\ theta.unit = "deg" /\ phi.unit = "deg" /\ lam.unit = "deg"
       /\ phi = np_degrees(np_arctan(Div(
                  Add(Z_original, Mul(Mul(Square(e_prime), b),
                                      Cube(SinRad(Radians(theta))))),
                  Sub(p, Mul(Mul(Square(e), a),
                             Cube(CosRad(Radians(theta))))))))
       /\ N = Div(a, Sqrt(Sub(One, Mul(Square(e),
                                        Square(SinRad(Radians(phi)))))))
       /\ h = Sub(Div(p, CosRad(Radians(phi))), N)
  /\ pc = "differences" =>
       /\ X_new = Mul(Mul(Add(N, h_offset), CosRad(Radians(phi))),
                      CosRad(Radians(lam)))
       /\ Y_new = Mul(Mul(Add(N, h_offset), CosRad(Radians(phi))),
                      SinRad(Radians(lam)))
       /\ Z_new = Mul(Add(Mul(Div(Square(b), Square(a)), N), h_offset),
                      SinRad(Radians(phi)))

C10_DegreesKept ==
  /\ pc = "differences" /\ GRS80Model /\ AtGBT
  /\ phi.unit = "deg" /\ Lt(One, phi.value)
  /\ Within(Z_new, Mul(Add(Mul(Div(Square(b), Square(a)), N), h_offset),
                       SinRad(Radians(phi))), Fin(1, <<0, 0, 0, 100, 0, 0, 0, 0, 0, 0>>))

====
